---- MODULE Spec2Model ----
(***************************************************************************)
(* Verification model of futures-crypto: the cipher stream adapters        *)
(* (src/src/cipher.rs), the digest adapter and its split pair              *)
(* (src/src/hash.rs).  The OpenSSL engines called by the adapters are      *)
(* modelled by small executable stand-ins with the same buffering,         *)
(* padding and reset behaviour; byte values and the block length are       *)
(* scaled down.                                                            *)
(***************************************************************************)
EXTENDS Integers, Sequences, FiniteSets, TLC

(* ------------------------------ bounds -------------------------------- *)
\* scaled block length of the block modes (AES: 16)
BlockLen == 2
\* longest input byte sequence fed to an adapter
MaxData == 3
\* longest input byte sequence fed to a digest adapter
MaxHashData == 2
\* not-ready / error / empty-chunk results an inner producer may interleave
MaxStall == 1
\* provider faults the engine may report during one run
MaxFaults == 1
\* largest byte count asked of the random generator
MaxSize == 3
\* bytes a buffer's capacity may exceed the capacity asked for
MaxSlack == 1

\* byte values are 0..ByteMod-1; a padding byte must be able to hold BlockLen
ByteMod == BlockLen + 1
Byte == 0..(ByteMod - 1)
\* values written into the key and IV slices
KeyVals == {1, 2}
\* byte values of the caller's input
InputByte == {0, 1}

(* --------------------------- small helpers ---------------------------- *)
None == <<>>
Some(x) == <<x>>

RECURSIVE SeqsUpTo(_)
SeqsUpTo(n) ==
    IF n = 0 THEN {<<>>}
    ELSE LET S == SeqsUpTo(n - 1)
         IN  S \cup {Append(s, b) : s \in {t \in S : Len(t) = n - 1}, b \in InputByte}

RECURSIVE Concat(_)
Concat(chunks) ==
    IF chunks = <<>> THEN <<>> ELSE Head(chunks) \o Concat(Tail(chunks))

Take(s, n) == SubSeq(s, 1, n)
Drop(s, n) == SubSeq(s, n + 1, Len(s))

(* ----------------- poll results (futures::Poll<Option<_>, _>) ---------- *)
NotReady   == [kind |-> "NotReady", bytes |-> <<>>, err |-> "none"]
ReadyNone  == [kind |-> "None",     bytes |-> <<>>, err |-> "none"]
ReadySome(b) == [kind |-> "Some",   bytes |-> b,    err |-> "none"]
Err(e)     == [kind |-> "Err",      bytes |-> <<>>, err |-> e]
NotPolled  == [kind |-> "NotPolled", bytes |-> <<>>, err |-> "none"]

(* ------------------------- cipher::Algorithm --------------------------- *)
Algorithm ==
    {"Aes128Ecb", "Aes128Cbc", "Aes128Ctr", "Aes128Cfb1", "Aes128Cfb128", "Aes128Cfb8",
     "Aes256Ecb", "Aes256Cbc", "Aes256Ctr", "Aes256Cfb1", "Aes256Cfb128", "Aes256Cfb8"}

MAX_IV_LEN == 16
MAX_KEY_LEN == 32

Aes128 == {"Aes128Ecb", "Aes128Cbc", "Aes128Ctr", "Aes128Cfb1", "Aes128Cfb128", "Aes128Cfb8"}
EcbAlgos == {"Aes128Ecb", "Aes256Ecb"}
CbcAlgos == {"Aes128Cbc", "Aes256Cbc"}
CtrAlgos == {"Aes128Ctr", "Aes256Ctr"}

\* key_len() as if the longer keys were 192-bit ones
key_len192(algo) == IF algo \in Aes128 THEN 16 ELSE 24
key_len(algo) == IF algo \in Aes128 THEN 16 ELSE 32
iv_len(algo) == IF algo \in EcbAlgos THEN None ELSE Some(16)
\* Cipher::block_size: the block modes buffer whole blocks, the others are byte streams
cipher_block_size(algo) == IF algo \in EcbAlgos \cup CbcAlgos THEN BlockLen ELSE 1

(* ------------------------------ Config --------------------------------- *)
ConfigNew(algo) ==
    [algo |-> algo,
     key  |-> [i \in 1..MAX_KEY_LEN |-> 0],
     iv   |-> [i \in 1..MAX_IV_LEN |-> 0]]

\* key_mut(): the slice key[..key_len], here filled with the value v
key_mut(config, v) ==
    [config EXCEPT !.key = [i \in 1..MAX_KEY_LEN |->
                               IF i <= key_len(config.algo) THEN v ELSE config.key[i]]]

\* iv_mut(): None without IV, otherwise the slice iv[..iv_len], here filled with v
iv_mut(config, v) ==
    IF iv_len(config.algo) = None THEN config
    ELSE [config EXCEPT !.iv = [i \in 1..MAX_IV_LEN |->
                               IF i <= iv_len(config.algo)[1] THEN v ELSE config.iv[i]]]

\* the configurations quickcheck's Arbitrary builds
ArbitraryConfig ==
    {iv_mut(key_mut(ConfigNew(a), k), k) : a \in Algorithm, k \in KeyVals}

(* ------------------- openssl::symm::Crypter stand-in ------------------- *)
\* material the stand-in derives from the key and IV slices
RoundKey(key) == (key[1] + Len(key)) % ByteMod
IvByte(iv) == IF iv = None THEN 0 ELSE iv[1][1] % ByteMod

CrypterNew(algo, mode, key, iv) ==
    [algo  |-> algo,
     mode  |-> mode,
     k     |-> RoundKey(key),
     buf   |-> <<>>,
     chain |-> IF algo \in EcbAlgos \cup CbcAlgos
               THEN [j \in 1..BlockLen |-> IvByte(iv)]
               ELSE <<IvByte(iv)>>]

EncBlock(c, p) == [j \in 1..BlockLen |-> (p[j] + c.chain[j] + c.k + j) % ByteMod]
DecBlock(c, x) == [j \in 1..BlockLen |-> (x[j] + 4 * ByteMod - c.chain[j] - c.k - j) % ByteMod]

\* one block through the cipher; CBC chains on the ciphertext block, ECB does not
BlockStep(c, blk) ==
    LET o  == IF c.mode = "Encrypt" THEN EncBlock(c, blk) ELSE DecBlock(c, blk)
        ct == IF c.mode = "Encrypt" THEN o ELSE blk
    IN  [crypter |-> IF c.algo \in CbcAlgos THEN [c EXCEPT !.chain = ct] ELSE c,
         out     |-> o]

RECURSIVE Blocks(_, _, _)
Blocks(c, data, n) ==
    IF n = 0 THEN [crypter |-> c, out |-> <<>>]
    ELSE LET s == BlockStep(c, Take(data, BlockLen))
             r == Blocks(s.crypter, Drop(data, BlockLen), n - 1)
         IN  [crypter |-> r.crypter, out |-> s.out \o r.out]

KeyStream(c) == (c.k + 2 * c.chain[1] + 1) % ByteMod

\* one byte through a stream mode; CTR advances a counter, CFB feeds the ciphertext back
ByteStep(c, b) ==
    LET o  == IF c.mode = "Encrypt" THEN (b + KeyStream(c)) % ByteMod
              ELSE (b + ByteMod - KeyStream(c)) % ByteMod
        ct == IF c.mode = "Encrypt" THEN o ELSE b
        nx == IF c.algo \in CtrAlgos THEN (c.chain[1] + 1) % ByteMod ELSE ct
    IN  [crypter |-> [c EXCEPT !.chain = <<nx>>], out |-> <<o>>]

RECURSIVE Bytes(_, _)
Bytes(c, data) ==
    IF data = <<>> THEN [crypter |-> c, out |-> <<>>]
    ELSE LET s == ByteStep(c, Head(data))
             r == Bytes(s.crypter, Tail(data))
         IN  [crypter |-> r.crypter, out |-> s.out \o r.out]

\* Crypter::update: block modes emit whole blocks and keep the rest buffered;
\* decryption also holds back the last whole block, which may carry the padding
CrypterUpdate(c, input) ==
    IF cipher_block_size(c.algo) = 1 THEN Bytes(c, input)
    ELSE LET data == c.buf \o input
             n    == IF c.mode = "Encrypt" THEN Len(data) \div BlockLen
                     ELSE IF data = <<>> THEN 0 ELSE (Len(data) - 1) \div BlockLen
             r    == Blocks(c, data, n)
         IN  [crypter |-> [r.crypter EXCEPT !.buf = Drop(data, n * BlockLen)],
              out     |-> r.out]

PadLen(c) == BlockLen - Len(c.buf)
Padded(c) == c.buf \o [j \in 1..PadLen(c) |-> PadLen(c)]
PadOk(p) ==
    /\ p[BlockLen] \in 1..BlockLen
    /\ \A j \in (BlockLen - p[BlockLen] + 1)..BlockLen : p[j] = p[BlockLen]

\* Crypter::finalize: encryption emits the padded last block; decryption checks
\* and strips the padding and fails on a short last block or bad padding
CrypterFinalize(c) ==
    IF cipher_block_size(c.algo) = 1 THEN [ok |-> TRUE, crypter |-> c, out |-> <<>>]
    ELSE IF c.mode = "Encrypt"
         THEN LET s == BlockStep(c, Padded(c))
              IN  [ok |-> TRUE, crypter |-> [s.crypter EXCEPT !.buf = <<>>], out |-> s.out]
         ELSE IF Len(c.buf) # BlockLen
              THEN [ok |-> FALSE, crypter |-> c, out |-> <<>>]
              ELSE LET s == BlockStep(c, c.buf)
                   IN  IF PadOk(s.out)
                       THEN [ok |-> TRUE, crypter |-> [s.crypter EXCEPT !.buf = <<>>],
                             out |-> Take(s.out, BlockLen - s.out[BlockLen])]
                       ELSE [ok |-> FALSE, crypter |-> c, out |-> <<>>]

(* ----------------------- inner byte-chunk producer --------------------- *)
\* A producer holds the bytes it has yet to yield.  Kind "iter_ok" is
\* futures::stream::iter_ok over a Vec of chunks (never NotReady, never Err);
\* kind "any" is an arbitrary Stream.  An outcome of a poll is the producer
\* afterwards and the result returned.
Producer(kind, data) == [kind |-> kind, data |-> data, stall |-> MaxStall]

InnerPolls(inner) ==
    {[self |-> [inner EXCEPT !.data = Drop(inner.data, n)],
      result |-> ReadySome(Take(inner.data, n))] : n \in 1..Len(inner.data)}
    \cup (IF inner.data = <<>> THEN {[self |-> inner, result |-> ReadyNone]} ELSE {})
    \cup (IF inner.stall > 0
          THEN {[self |-> [inner EXCEPT !.stall = @ - 1], result |-> ReadySome(<<>>)]}
          ELSE {})
    \cup (IF inner.stall > 0 /\ inner.kind = "any"
          THEN {[self |-> [inner EXCEPT !.stall = @ - 1], result |-> r] :
                    r \in {NotReady, Err("inner")}}
          ELSE {})

(* ------------------------------ CipherStream --------------------------- *)
IsAdapter(x) == "finalized" \in DOMAIN x

\* Config::stream handing the inner producer back with the error
ConfigStreamReturnInner(config, inner, mode, engine_ok) ==
    IF engine_ok
    THEN [ok |-> TRUE, err |-> "none", returned_inner |-> None,
          stream |-> Some([inner |-> inner,
                           crypter |-> CrypterNew(config.algo, mode,
                                                  Take(config.key, key_len(config.algo)),
                                                  IF iv_len(config.algo) = None THEN None
                                                  ELSE Some(Take(config.iv, iv_len(config.algo)[1]))),
                           block_size |-> cipher_block_size(config.algo),
                           finalized |-> FALSE])]
    ELSE [ok |-> FALSE, err |-> "engine", returned_inner |-> Some(inner), stream |-> None]

\* Config::stream: Ok(CipherStream) or Err(Error); `inner` is moved in, and the
\* Err value carries the error stack only
ConfigStream(config, inner, mode, engine_ok) ==
    LET cipher     == config.algo
        block_size == cipher_block_size(cipher)
        iv  == IF iv_len(cipher) = None THEN None
               ELSE Some(Take(config.iv, iv_len(cipher)[1]))
        key == Take(config.key, key_len(cipher))
    IN  IF engine_ok
        THEN [ok |-> TRUE, err |-> "none", returned_inner |-> None,
              stream |-> Some([inner |-> inner,
                               crypter |-> CrypterNew(cipher, mode, key, iv),
                               block_size |-> block_size,
                               finalized |-> FALSE])]
        ELSE [ok |-> FALSE, err |-> "engine", returned_inner |-> None, stream |-> None]

NoCalls ==
    [inner |-> FALSE, polled |-> "none", update |-> FALSE, finalize |-> FALSE,
     engine_err |-> FALSE, fault |-> FALSE]

\* CipherStream::poll, Ready(None) arm, with the finalize output lost
PollEndNoFlush(t, c, fault) ==
    LET f == CrypterFinalize(t.crypter)
        u == [t EXCEPT !.finalized = TRUE]
    IN  IF fault \/ ~f.ok
        THEN [self |-> u, result |-> Err("engine"),
              calls |-> [c EXCEPT !.finalize = TRUE, !.engine_err = TRUE, !.fault = fault]]
        ELSE [self |-> [u EXCEPT !.crypter = f.crypter], result |-> ReadyNone,
              calls |-> [c EXCEPT !.finalize = TRUE]]

\* CipherStream::poll, Ready(None) arm, with the finalized flag left unset
PollEndUnflagged(t, c, fault) ==
    LET f == CrypterFinalize(t.crypter)
    IN  IF fault \/ ~f.ok
        THEN [self |-> t, result |-> Err("engine"),
              calls |-> [c EXCEPT !.finalize = TRUE, !.engine_err = TRUE, !.fault = fault]]
        ELSE [self |-> [t EXCEPT !.crypter = f.crypter], result |-> ReadySome(f.out),
              calls |-> [c EXCEPT !.finalize = TRUE]]

\* CipherStream::poll, Ready(None) arm: the inner producer is at its end.
\* fault: the engine call of this pull reports a provider fault.
PollEnd(t, c, fault) ==
    LET f == CrypterFinalize(t.crypter)
        u == [t EXCEPT !.finalized = TRUE]
    IN  IF fault \/ ~f.ok
        THEN [self |-> u, result |-> Err("engine"),
              calls |-> [c EXCEPT !.finalize = TRUE, !.engine_err = TRUE, !.fault = fault]]
        ELSE [self |-> [u EXCEPT !.crypter = f.crypter], result |-> ReadySome(f.out),
              calls |-> [c EXCEPT !.finalize = TRUE]]

\* CipherStream::poll, Ready(Some(item)) arm, with an engine error swallowed
PollItemSwallowError(t, c, input, fault) ==
    LET r == CrypterUpdate(t.crypter, input)
    IN  IF fault
        THEN [self |-> t, result |-> ReadySome(<<>>),
              calls |-> [c EXCEPT !.update = TRUE, !.engine_err = TRUE, !.fault = TRUE]]
        ELSE [self |-> [t EXCEPT !.crypter = r.crypter], result |-> ReadySome(r.out),
              calls |-> [c EXCEPT !.update = TRUE]]

\* CipherStream::poll, Ready(Some(item)) arm, with an empty item taken for the end
PollItemEmptyIsEnd(t, c, input, fault) ==
    LET r == CrypterUpdate(t.crypter, input)
    IN  IF input = <<>> THEN PollEnd(t, c, fault)
        ELSE IF fault
        THEN [self |-> t, result |-> Err("engine"),
              calls |-> [c EXCEPT !.update = TRUE, !.engine_err = TRUE, !.fault = TRUE]]
        ELSE [self |-> [t EXCEPT !.crypter = r.crypter], result |-> ReadySome(r.out),
              calls |-> [c EXCEPT !.update = TRUE]]

\* CipherStream::poll, Ready(Some(item)) arm: the inner producer yielded a chunk
PollItem(t, c, input, fault) ==
    LET r == CrypterUpdate(t.crypter, input)
    IN  IF fault
        THEN [self |-> t, result |-> Err("engine"),
              calls |-> [c EXCEPT !.update = TRUE, !.engine_err = TRUE, !.fault = TRUE]]
        ELSE [self |-> [t EXCEPT !.crypter = r.crypter], result |-> ReadySome(r.out),
              calls |-> [c EXCEPT !.update = TRUE]]

\* the arms of CipherStream::poll with a not-ready inner producer taken for
\* one that yielded an empty chunk
PollInnerNotReadyIsEmpty(s, p, fault) ==
    LET t == [s EXCEPT !.inner = p.self]
        c == [NoCalls EXCEPT !.inner = TRUE, !.polled = p.result.kind]
    IN  CASE p.result.kind = "Err"      -> [self |-> t, result |-> p.result, calls |-> c]
          [] p.result.kind = "NotReady" -> PollItem(t, c, <<>>, fault)
          [] p.result.kind = "None"     -> PollEnd(t, c, fault)
          [] p.result.kind = "Some"     -> PollItem(t, c, p.result.bytes, fault)

\* the arms of CipherStream::poll once the inner producer has been polled
PollInner(s, p, fault) ==
    LET t == [s EXCEPT !.inner = p.self]
        c == [NoCalls EXCEPT !.inner = TRUE, !.polled = p.result.kind]
    IN  CASE p.result.kind = "Err"      -> [self |-> t, result |-> p.result, calls |-> c]
          [] p.result.kind = "NotReady" -> [self |-> t, result |-> NotReady, calls |-> c]
          [] p.result.kind = "None"     -> PollEnd(t, c, fault)
          [] p.result.kind = "Some"     -> PollItem(t, c, p.result.bytes, fault)

\* CipherStream::poll without the test of the finalized flag
CipherStreamPollUnguarded(s, p, fault) == PollInner(s, p, fault)

\* CipherStream::poll.  p is the outcome the inner poll has if it is made.
CipherStreamPoll(s, p, fault) ==
    IF s.finalized
    THEN [self |-> s, result |-> ReadyNone, calls |-> NoCalls]
    ELSE PollInner(s, p, fault)

\* all outcomes of polling x, a producer or an adapter around one
RECURSIVE Outcomes(_, _)
Outcomes(x, faults) ==
    IF IsAdapter(x)
    THEN {CipherStreamPoll(x, p, f) : p \in Outcomes(x.inner, faults), f \in faults}
    ELSE InnerPolls(x)

Depth(x) == IF ~IsAdapter(x) THEN 0 ELSE IF ~IsAdapter(x.inner) THEN 1 ELSE 2

(* --------------------------- hash::Algorithm --------------------------- *)
HashAlgorithm == {"Md5", "Sha1", "Sha224", "Sha256", "Sha384", "Sha512"}

\* Algorithm::into_message_digest, a message digest being known by its size
into_message_digest(algorithm) ==
    CASE algorithm = "Md5"    -> 16
      [] algorithm = "Sha1"   -> 20
      [] algorithm = "Sha224" -> 28
      [] algorithm = "Sha256" -> 32
      [] algorithm = "Sha384" -> 48
      [] algorithm = "Sha512" -> 64

(* -------------------- openssl::hash::Hasher stand-in ------------------- *)
\* width of the stand-in digest value
DigestMod == 65536

RECURSIVE Compress(_, _)
Compress(x, data) ==
    IF data = <<>> THEN x
    ELSE Compress((x * 3 + Head(data) + 1) % DigestMod, Tail(data))

\* the digest, under message digest md, of all of data
MessageDigest(md, data) == Compress(md, data)

\* Hasher::new leaves the hasher initialised (state Reset)
HasherNew(md) == [md |-> md, state |-> "Reset", acc |-> <<>>]
HasherInit(h) == [h EXCEPT !.state = "Reset", !.acc = <<>>]

\* Hasher::update: re-initialises a finalized hasher, then absorbs the data
HasherUpdate(h, data) ==
    LET g == IF h.state = "Finalized" THEN HasherInit(h) ELSE h
    IN  [g EXCEPT !.state = "Updated", !.acc = @ \o data]

\* Hasher::finish2: re-initialises a finalized hasher, then returns the digest
\* of what was absorbed and leaves the hasher finalized
HasherFinish2(h) ==
    LET g == IF h.state = "Finalized" THEN HasherInit(h) ELSE h
    IN  [hasher |-> [g EXCEPT !.state = "Finalized"],
         bytes  |-> MessageDigest(g.md, g.acc)]

(* ------------------------------ HashInner ------------------------------ *)
\* HashInner::new (the hasher could be initialised)
HashInnerNew(algorithm, inner) ==
    [inner |-> inner, hasher |-> HasherNew(into_message_digest(algorithm)),
     algorithm |-> algorithm]

Digest(bytes, algorithm) == [bytes |-> bytes, algorithm |-> algorithm]
Ok(v) == [ok |-> TRUE, value |-> v, err |-> "none"]
Fail(e) == [ok |-> FALSE, value |-> <<>>, err |-> e]

\* HashInner::digest on a copy of the hasher, the hasher itself left as it was
HashInnerDigestNoReset(h, fault) ==
    IF fault THEN [self |-> h, result |-> Fail("engine")]
    ELSE LET f == HasherFinish2(h.hasher)
         IN  [self |-> h, result |-> Ok(Digest(f.bytes, h.algorithm))]

\* HashInner::digest: Ok(Digest) and the hasher reset, or the engine's error
HashInnerDigest(h, fault) ==
    IF fault THEN [self |-> h, result |-> Fail("engine")]
    ELSE LET f == HasherFinish2(h.hasher)
         IN  [self |-> [h EXCEPT !.hasher = f.hasher],
              result |-> Ok(Digest(f.bytes, h.algorithm))]

\* HashInner::poll handing on the engine's output length instead of the item
HashInnerPollEmptied(h, p, fault) ==
    LET t == [h EXCEPT !.inner = p.self]
        c == [NoCalls EXCEPT !.inner = TRUE, !.polled = p.result.kind]
    IN  CASE p.result.kind = "Err"      -> [self |-> t, result |-> p.result, calls |-> c]
          [] p.result.kind = "NotReady" -> [self |-> t, result |-> NotReady, calls |-> c]
          [] p.result.kind = "None"     -> [self |-> t, result |-> ReadyNone, calls |-> c]
          [] p.result.kind = "Some"     ->
                IF fault
                THEN [self |-> t, result |-> Err("engine"),
                      calls |-> [c EXCEPT !.update = TRUE, !.engine_err = TRUE,
                                          !.fault = TRUE]]
                ELSE [self |-> [t EXCEPT !.hasher = HasherUpdate(@, p.result.bytes)],
                      result |-> ReadySome(<<>>),
                      calls |-> [c EXCEPT !.update = TRUE]]

\* HashInner::poll with an error of the inner producer taken for its end
HashInnerPollErrIsEnd(h, p, fault) ==
    LET t == [h EXCEPT !.inner = p.self]
        c == [NoCalls EXCEPT !.inner = TRUE, !.polled = p.result.kind]
    IN  CASE p.result.kind = "Err"      -> [self |-> t, result |-> ReadyNone, calls |-> c]
          [] p.result.kind = "NotReady" -> [self |-> t, result |-> NotReady, calls |-> c]
          [] p.result.kind = "None"     -> [self |-> t, result |-> ReadyNone, calls |-> c]
          [] p.result.kind = "Some"     ->
                IF fault
                THEN [self |-> t, result |-> Err("engine"),
                      calls |-> [c EXCEPT !.update = TRUE, !.engine_err = TRUE,
                                          !.fault = TRUE]]
                ELSE [self |-> [t EXCEPT !.hasher = HasherUpdate(@, p.result.bytes)],
                      result |-> ReadySome(p.result.bytes),
                      calls |-> [c EXCEPT !.update = TRUE]]

\* HashInner::poll.  p is the outcome of the inner poll, fault says whether
\* the hasher's update reports a provider fault.
HashInnerPoll(h, p, fault) ==
    LET t == [h EXCEPT !.inner = p.self]
        c == [NoCalls EXCEPT !.inner = TRUE, !.polled = p.result.kind]
    IN  CASE p.result.kind = "Err"      -> [self |-> t, result |-> p.result, calls |-> c]
          [] p.result.kind = "NotReady" -> [self |-> t, result |-> NotReady, calls |-> c]
          [] p.result.kind = "None"     -> [self |-> t, result |-> ReadyNone, calls |-> c]
          [] p.result.kind = "Some"     ->
                IF fault
                THEN [self |-> t, result |-> Err("engine"),
                      calls |-> [c EXCEPT !.update = TRUE, !.engine_err = TRUE,
                                          !.fault = TRUE]]
                ELSE [self |-> [t EXCEPT !.hasher = HasherUpdate(@, p.result.bytes)],
                      result |-> ReadySome(p.result.bytes),
                      calls |-> [c EXCEPT !.update = TRUE]]

(* ------------------ futures::sync::oneshot channel --------------------- *)
\* the state shared by Sender and Receiver
OneshotChannel == [data |-> None, complete |-> FALSE]

\* dropping either end marks the channel complete
OneshotDrop(ch) == [ch EXCEPT !.complete = TRUE]

\* Sender::send stores the value unless the receiver is gone; send consumes
\* the sender, which is dropped at the end of the call
OneshotSend(ch, t) ==
    OneshotDrop(IF ch.complete THEN ch ELSE [ch EXCEPT !.data = Some(t)])

\* Receiver::poll: the value once the channel is complete, Canceled if it is
\* complete without a value
OneshotRecv(ch) ==
    IF ~ch.complete THEN [channel |-> ch, result |-> "NotReady", value |-> None]
    ELSE IF ch.data # None
         THEN [channel |-> [ch EXCEPT !.data = None], result |-> "Ready", value |-> ch.data]
         ELSE [channel |-> ch, result |-> "Canceled", value |-> None]

(* --------------------------- the split pair ---------------------------- *)
\* results of SplitDigest::poll
RxNotReady == [kind |-> "NotReady", value |-> None, err |-> "none"]
RxReady(v) == [kind |-> "Ready", value |-> v, err |-> "none"]
RxErr(e)   == [kind |-> "Err", value |-> None, err |-> e]

\* SplitDigest::poll with the cancellation passed on as an error
SplitDigestPollCanceledIsErr(ch) ==
    LET r == OneshotRecv(ch)
    IN  CASE r.result = "Canceled" -> [channel |-> r.channel, result |-> RxErr("canceled")]
          [] r.result = "NotReady" -> [channel |-> r.channel, result |-> RxNotReady]
          [] r.result = "Ready"    ->
                [channel |-> r.channel,
                 result  |-> IF r.value[1].ok THEN RxReady(Some(r.value[1].value))
                             ELSE RxErr(r.value[1].err)]

\* SplitDigest::poll
SplitDigestPoll(ch) ==
    LET r == OneshotRecv(ch)
    IN  CASE r.result = "Canceled" -> [channel |-> r.channel, result |-> RxReady(None)]
          [] r.result = "NotReady" -> [channel |-> r.channel, result |-> RxNotReady]
          [] r.result = "Ready"    ->
                [channel |-> r.channel,
                 result  |-> IF r.value[1].ok THEN RxReady(Some(r.value[1].value))
                             ELSE RxErr(r.value[1].err)]

\* Hash::split: a fresh channel, its receiver for the one handle, the adapter
\* and the sender for the other
HashSplit(h) ==
    [receive |-> [receiver |-> "rx"],
     compute |-> [inner |-> h, sender |-> Some("tx")],
     channel |-> OneshotChannel]

\* SplitHash::poll with the sender taken and dropped, nothing sent
SplitHashPollNoSend(sh, ch, p, fault) ==
    LET r == HashInnerPoll(sh.inner, p, fault)
        t == [sh EXCEPT !.inner = r.self]
    IN  IF r.result.kind = "None" /\ sh.sender # None
        THEN [self |-> [t EXCEPT !.sender = None], channel |-> OneshotDrop(ch),
              result |-> ReadyNone, calls |-> r.calls]
        ELSE [self |-> t, channel |-> ch, result |-> r.result, calls |-> r.calls]

\* SplitHash::poll giving up its sender when the pull ends in an error
SplitHashPollErrDropsSender(sh, ch, p, fault) ==
    LET r == HashInnerPoll(sh.inner, p, fault)
        t == [sh EXCEPT !.inner = r.self]
    IN  IF r.result.kind = "None" /\ sh.sender # None
        THEN LET d == HashInnerDigest(t.inner, fault)
             IN  [self |-> [t EXCEPT !.inner = d.self, !.sender = None],
                  channel |-> OneshotSend(ch, d.result),
                  result |-> ReadyNone,
                  calls |-> [r.calls EXCEPT !.finalize = TRUE, !.engine_err = fault,
                                            !.fault = fault]]
        ELSE IF r.result.kind = "Err" /\ sh.sender # None
        THEN [self |-> [t EXCEPT !.sender = None], channel |-> OneshotDrop(ch),
              result |-> r.result, calls |-> r.calls]
        ELSE [self |-> t, channel |-> ch, result |-> r.result, calls |-> r.calls]

\* SplitHash::poll signalling the end while still holding the sender
SplitHashPollEndFirst(sh, ch, p, fault) ==
    LET r == HashInnerPoll(sh.inner, p, fault)
        t == [sh EXCEPT !.inner = r.self]
    IN  [self |-> t, channel |-> ch, result |-> r.result, calls |-> r.calls]

\* SplitHash::poll retrieving the digest at every end-of-data, sender or not
SplitHashPollDigestEveryEnd(sh, ch, p, fault) ==
    LET r == HashInnerPoll(sh.inner, p, fault)
        t == [sh EXCEPT !.inner = r.self]
    IN  IF r.result.kind = "None"
        THEN LET d == HashInnerDigest(t.inner, fault)
             IN  [self |-> [t EXCEPT !.inner = d.self, !.sender = None],
                  channel |-> IF sh.sender # None THEN OneshotSend(ch, d.result) ELSE ch,
                  result |-> ReadyNone,
                  calls |-> [r.calls EXCEPT !.finalize = TRUE, !.engine_err = fault,
                                            !.fault = fault]]
        ELSE [self |-> t, channel |-> ch, result |-> r.result, calls |-> r.calls]

\* SplitHash::poll with a failed digest returned from the pull instead of sent
SplitHashPollDigestErr(sh, ch, p, fault) ==
    LET r == HashInnerPoll(sh.inner, p, fault)
        t == [sh EXCEPT !.inner = r.self]
    IN  IF r.result.kind = "None" /\ sh.sender # None
        THEN LET d == HashInnerDigest(t.inner, fault)
             IN  IF d.result.ok
                 THEN [self |-> [t EXCEPT !.inner = d.self, !.sender = None],
                       channel |-> OneshotSend(ch, d.result),
                       result |-> ReadyNone,
                       calls |-> [r.calls EXCEPT !.finalize = TRUE]]
                 ELSE [self |-> t, channel |-> ch, result |-> Err("engine"),
                       calls |-> [r.calls EXCEPT !.finalize = TRUE, !.engine_err = TRUE,
                                                 !.fault = fault]]
        ELSE [self |-> t, channel |-> ch, result |-> r.result, calls |-> r.calls]

\* SplitHash::poll: on end-of-data the sender is taken and the digest sent
SplitHashPoll(sh, ch, p, fault) ==
    LET r == HashInnerPoll(sh.inner, p, fault)
        t == [sh EXCEPT !.inner = r.self]
    IN  IF r.result.kind = "None" /\ sh.sender # None
        THEN LET d == HashInnerDigest(t.inner, fault)
             IN  [self |-> [t EXCEPT !.inner = d.self, !.sender = None],
                  channel |-> OneshotSend(ch, d.result),
                  result |-> ReadyNone,
                  calls |-> [r.calls EXCEPT !.finalize = TRUE, !.engine_err = fault,
                                            !.fault = fault]]
        ELSE [self |-> t, channel |-> ch, result |-> r.result, calls |-> r.calls]

(* ------------------------- the random generator ------------------------ *)
\* a poll that unwinds instead of returning
Panic(msg) == [kind |-> "Panic", bytes |-> <<>>, err |-> msg]

\* byte sequences of length n the random source may write
Filled(n) == [1..n -> InputByte]

\* Generator::random_bytes: nothing is submitted, the request starts Idle
RandomBytes(size) == [size |-> size, state |-> "Idle"]

\* TaskInner::poll returning the whole buffer the random source filled
TaskInnerPollWholeBuffer(size, fault, filled) ==
    IF fault THEN Fail("engine") ELSE Ok(filled)

\* TaskInner::poll: a buffer of capacity at least size, all of it filled by
\* rand_bytes, its length then set to size; filled is what rand_bytes wrote
TaskInnerPoll(size, fault, filled) ==
    IF fault THEN Fail("engine") ELSE Ok(Take(filled, size))

\* TaskExecutor::execute: the task is wrapped and handed to the inner
\* executor, whose rejection is handed back
TaskExecutorExecute(exec, task_inner) ==
    IF exec.accepting
    THEN Ok([inner |-> task_inner, stage |-> "queued"])
    ELSE Fail("shutdown")

\* oneshot::spawn as called by RandomBytes::poll: a fresh channel, the task
\* given to the executor; a rejected task makes spawn panic (it expects the
\* execute call to succeed)
Spawn(task_inner, exec) ==
    LET r == TaskExecutorExecute(exec, task_inner)
    IN  [ok |-> r.ok,
         task |-> IF r.ok THEN Some(r.value) ELSE None,
         handle |-> OneshotChannel]

\* SpawnHandle::poll as called by RandomBytes::poll: the task's result once
\* sent; a channel completed without a value makes it panic
SpawnHandlePoll(ch) ==
    LET r == OneshotRecv(ch)
    IN  CASE r.result = "NotReady" -> [channel |-> r.channel, result |-> NotReady]
          [] r.result = "Canceled" ->
                [channel |-> r.channel, result |-> Panic("canceled")]
          [] r.result = "Ready"    ->
                [channel |-> r.channel,
                 result  |-> IF r.value[1].ok THEN ReadySome(r.value[1].value)
                             ELSE Err(r.value[1].err)]

\* RandomBytes::poll that spawns without recording the handle
RandomBytesPollStaysIdle(rb, exec, task, ch) ==
    IF rb.state = "Busy"
    THEN LET p == SpawnHandlePoll(ch)
         IN  [self |-> rb, task |-> task, channel |-> p.channel, result |-> p.result,
              executes |-> 0]
    ELSE LET s == Spawn([size |-> rb.size], exec)
         IN  IF ~s.ok
             THEN [self |-> rb, task |-> task, channel |-> ch,
                   result |-> Panic("failed to spawn"), executes |-> 1]
             ELSE [self |-> rb, task |-> s.task, channel |-> s.handle,
                   result |-> SpawnHandlePoll(s.handle).result, executes |-> 1]

\* RandomBytes::poll: Busy polls the spawn handle; Idle spawns the task,
\* becomes Busy and polls again
RandomBytesPoll(rb, exec, task, ch) ==
    IF rb.state = "Busy"
    THEN LET p == SpawnHandlePoll(ch)
         IN  [self |-> rb, task |-> task, channel |-> p.channel, result |-> p.result,
              executes |-> 0]
    ELSE LET s == Spawn([size |-> rb.size], exec)
         IN  IF ~s.ok
             THEN [self |-> rb, task |-> task, channel |-> ch,
                   result |-> Panic("failed to spawn"), executes |-> 1]
             ELSE LET p == SpawnHandlePoll(s.handle)
                  IN  [self |-> [rb EXCEPT !.state = "Busy"], task |-> s.task,
                       channel |-> p.channel, result |-> p.result, executes |-> 1]

\* Execute::poll, first half, never looking at the cancellation
ExecuteStartAlways(t, ch) == [t EXCEPT !.stage = "running"]

\* Execute::poll, first half, as called by Task::poll: a task whose handle
\* was dropped returns without polling the future it wraps
ExecuteStart(t, ch) ==
    [t EXCEPT !.stage = IF ch.complete THEN "cancelled" ELSE "running"]

\* Execute::poll, second half: the wrapped future is polled and its result sent
ExecuteRun(t, ch, fault, filled) ==
    [task |-> [t EXCEPT !.stage = "done"],
     channel |-> OneshotSend(ch, TaskInnerPoll(t.inner.size, fault, filled))]

(* ------------------------------- state --------------------------------- *)
VARIABLES
    config,     \* cipher::Config of the adapters
    input,      \* all bytes the innermost producer yields (never changes)
    held,       \* the stream the caller owns: None, or Some(producer or adapter)
    built,      \* Some(Result of the last Encrypt::new / Decrypt::new), None before
    dropped,    \* the inner producer has been dropped
    output,     \* chunks the caller has pulled from the adapter
    last,       \* result of the last pull
    calls,      \* what the last pull called
    pre,        \* before the last pull: was the adapter finalized, had an engine call failed
    provider,   \* faults the engine provider may still report
    taken,      \* number of chunks the adapter has taken from its inner producer
    hash,         \* Some(the Hash adapter the caller owns), None once split
    split_hash,   \* Some(the computing handle), None before the split and once dropped
    split_digest, \* Some(the receiving handle), None before the split and once dropped
    channel,      \* the oneshot channel between the two handles
    hinput,       \* all bytes the adapter's inner producer yields (never changes)
    yielded,      \* chunks the inner producer has yielded
    forwarded,    \* chunks the consumer has pulled from the adapter or computing handle
    segment,      \* bytes forwarded since construction or the last successful digest()
    hlast,        \* result of the last pull of the adapter or computing handle
    inner_last,   \* result of the inner poll that pull made
    hcalls,       \* what that pull called
    dlast,        \* Some(result of the last Hash::digest and the segment it was to cover)
    rx_first,     \* the first result of SplitDigest::poll other than NotReady
    hist,         \* what has happened so far in the run
    returned,     \* Some(the inner producer into_inner handed back)
    request,      \* Some(the RandomBytes future the caller owns), None once dropped
    executor,     \* the executor behind the generator (never changes)
    task,         \* Some(the task the executor accepted and its stage)
    spawned,      \* the oneshot channel between the task and its spawn handle
    rlast,        \* result of the last poll of the RandomBytes future
    rhist         \* what has happened to the request so far

cipher_vars == <<config, input, held, built, dropped, output, last, calls, pre, provider,
                 taken>>
hash_vars == <<hash, split_hash, split_digest, channel, hinput, yielded, forwarded, segment,
               hlast, inner_last, hcalls, dlast, rx_first, hist, returned>>
random_vars == <<request, executor, task, spawned, rlast, rhist>>
vars == <<cipher_vars, hash_vars, random_vars>>

NoPre == [finalized |-> FALSE, faulted |-> FALSE]

NoHist ==
    [algorithm |-> "none", saw_end |-> FALSE, abandoned |-> FALSE,
     update_failed |-> FALSE, digest_failed |-> FALSE, digests |-> 0, sends |-> 0]

\* no digest adapter in use
HashIdle ==
    /\ hash = None
    /\ split_hash = None
    /\ split_digest = None
    /\ channel = OneshotChannel
    /\ hinput = <<>>
    /\ yielded = <<>>
    /\ forwarded = <<>>
    /\ segment = <<>>
    /\ hlast = NotPolled
    /\ inner_last = NotPolled
    /\ hcalls = NoCalls
    /\ dlast = None
    /\ rx_first = RxNotReady
    /\ hist = NoHist
    /\ returned = None

NoRandomHist ==
    [size |-> 0, executes |-> 0, rand_calls |-> 0, rand_failed |-> FALSE,
     dropped_at |-> "alive"]

\* no random generator in use
RandomIdle ==
    /\ request = None
    /\ executor = [accepting |-> TRUE]
    /\ task = None
    /\ spawned = OneshotChannel
    /\ rlast = NotPolled
    /\ rhist = NoRandomHist

\* no cipher adapter in use
CipherIdle ==
    /\ config = ConfigNew("Aes128Ecb")
    /\ input = <<>>
    /\ held = None
    /\ built = None
    /\ dropped = FALSE
    /\ output = <<>>
    /\ last = NotPolled
    /\ calls = NoCalls
    /\ pre = NoPre
    /\ taken = 0

CipherInit(kind) ==
    /\ HashIdle
    /\ RandomIdle
    /\ config \in ArbitraryConfig
    /\ input \in SeqsUpTo(MaxData)
    /\ held = Some(Producer(kind, input))
    /\ built = None
    /\ dropped = FALSE
    /\ output = <<>>
    /\ last = NotPolled
    /\ calls = NoCalls
    /\ pre = NoPre
    /\ taken = 0
    /\ provider = MaxFaults

\* Encrypt::new / Decrypt::new: the caller's stream is moved into the constructor
New(mode, engine_ok) ==
    /\ held # None
    /\ LET r == ConfigStream(config, held[1], mode, engine_ok)
       IN  /\ built' = Some([ok |-> r.ok, err |-> r.err, returned_inner |-> r.returned_inner])
           /\ held' = r.stream
           /\ dropped' = (~r.ok /\ r.returned_inner = None)
    /\ UNCHANGED <<config, input, output, last, calls, pre, provider, taken>>
    /\ UNCHANGED hash_vars
    /\ UNCHANGED random_vars

\* one pull of the adapter the caller holds
Pull(faults) ==
    /\ held # None
    /\ IsAdapter(held[1])
    /\ \E o \in Outcomes(held[1], faults) :
          /\ held' = Some(o.self)
          /\ taken' = IF o.calls.polled = "Some" THEN taken + 1 ELSE taken
          /\ last' = o.result
          /\ calls' = o.calls
          /\ output' = IF o.result.kind = "Some" THEN Append(output, o.result.bytes)
                       ELSE output
          /\ pre' = [finalized |-> held[1].finalized,
                     faulted |-> pre.faulted \/ calls.engine_err]
          /\ provider' = IF o.calls.fault THEN provider - 1 ELSE provider
    /\ UNCHANGED <<config, input, built, dropped>>
    /\ UNCHANGED hash_vars
    /\ UNCHANGED random_vars

(* ---- a single Encrypt or Decrypt adapter over an arbitrary producer ---- *)
EncryptNew == \E ok \in BOOLEAN : held # None /\ Depth(held[1]) = 0 /\ New("Encrypt", ok)
DecryptNew == \E ok \in BOOLEAN : held # None /\ Depth(held[1]) = 0 /\ New("Decrypt", ok)
CipherPoll == Pull(IF provider > 0 THEN BOOLEAN ELSE {FALSE})

Init == CipherInit("any")
Next == EncryptNew \/ DecryptNew \/ CipherPoll
Spec == Init /\ [][Next]_vars

(* ---- test::roundtrip: Decrypt around Encrypt around iter_ok(chunks) ---- *)
RoundtripEncryptNew ==
    \E ok \in BOOLEAN : held # None /\ Depth(held[1]) = 0 /\ New("Encrypt", ok)
RoundtripDecryptNew ==
    \E ok \in BOOLEAN : held # None /\ Depth(held[1]) = 1 /\ New("Decrypt", ok)
RoundtripPoll == held # None /\ Depth(held[1]) = 2 /\ Pull({FALSE})

RoundtripInit == CipherInit("iter_ok")
RoundtripNext == RoundtripEncryptNew \/ RoundtripDecryptNew \/ RoundtripPoll
RoundtripSpec == RoundtripInit /\ [][RoundtripNext]_vars

(* ---- a Hash adapter over an arbitrary producer, and its split pair ---- *)
HashStart ==
    /\ CipherIdle
    /\ RandomIdle
    /\ provider = MaxFaults
    /\ hinput \in SeqsUpTo(MaxHashData)
    /\ yielded = <<>>
    /\ forwarded = <<>>
    /\ segment = <<>>
    /\ hlast = NotPolled
    /\ inner_last = NotPolled
    /\ hcalls = NoCalls
    /\ dlast = None
    /\ rx_first = RxNotReady
    /\ returned = None

\* Hash::new(algorithm, inner)
HashInit ==
    /\ HashStart
    /\ \E algorithm \in HashAlgorithm :
          /\ hash = Some(HashInnerNew(algorithm, Producer("any", hinput)))
          /\ hist = [NoHist EXCEPT !.algorithm = algorithm]
    /\ split_hash = None
    /\ split_digest = None
    /\ channel = OneshotChannel

\* Hash::new(algorithm, inner).split()
SplitInit ==
    /\ HashStart
    /\ \E algorithm \in HashAlgorithm :
          LET pair == HashSplit(HashInnerNew(algorithm, Producer("any", hinput)))
          IN  /\ split_digest = Some(pair.receive)
              /\ split_hash = Some(pair.compute)
              /\ channel = pair.channel
              /\ hist = [NoHist EXCEPT !.algorithm = algorithm]
    /\ hash = None

Faults == IF provider > 0 THEN BOOLEAN ELSE {FALSE}

\* what a pull of the adapter or of the computing handle leaves behind
Pulled(p, o) ==
    /\ hlast' = o.result
    /\ inner_last' = p.result
    /\ hcalls' = o.calls
    /\ yielded' = IF p.result.kind = "Some" THEN Append(yielded, p.result.bytes) ELSE yielded
    /\ forwarded' = IF o.result.kind = "Some" THEN Append(forwarded, o.result.bytes)
                    ELSE forwarded
    /\ segment' = IF o.result.kind = "Some" THEN segment \o o.result.bytes ELSE segment
    /\ provider' = IF o.calls.fault THEN provider - 1 ELSE provider

\* Hash::poll
HashPoll ==
    /\ hash # None
    /\ \E p \in InnerPolls(hash[1].inner), f \in Faults :
          LET o == HashInnerPoll(hash[1], p, f)
          IN  /\ hash' = Some(o.self)
              /\ Pulled(p, o)
              /\ hist' = [hist EXCEPT !.update_failed = @ \/ o.calls.engine_err]
    /\ UNCHANGED <<split_hash, split_digest, channel, hinput, dlast, rx_first,
                   returned>>
    /\ UNCHANGED <<config, input, held, built, dropped, output, last, calls, pre, taken>>
    /\ UNCHANGED random_vars

\* Hash::digest
HashDigest ==
    /\ hash # None
    /\ \E f \in Faults :
          LET o == HashInnerDigest(hash[1], f)
          IN  /\ hash' = Some(o.self)
              /\ dlast' = Some([result |-> o.result, covered |-> segment])
              /\ segment' = IF o.result.ok THEN <<>> ELSE segment
              /\ provider' = IF f THEN provider - 1 ELSE provider
              /\ hist' = [hist EXCEPT !.digest_failed = @ \/ ~o.result.ok]
    /\ UNCHANGED <<split_hash, split_digest, channel, hinput, yielded, forwarded,
                   hlast, inner_last, hcalls, rx_first, returned>>
    /\ UNCHANGED <<config, input, held, built, dropped, output, last, calls, pre, taken>>
    /\ UNCHANGED random_vars

\* SplitHash::poll
SplitHashPull ==
    /\ split_hash # None
    /\ hist.digests <= 1
    /\ \E p \in InnerPolls(split_hash[1].inner.inner), f \in Faults :
          LET o == SplitHashPoll(split_hash[1], channel, p, f)
          IN  /\ split_hash' = Some(o.self)
              /\ channel' = o.channel
              /\ Pulled(p, o)
              /\ hist' = [hist EXCEPT
                              !.saw_end = @ \/ o.result.kind = "None",
                              !.update_failed = @ \/ (o.calls.update /\ o.calls.engine_err),
                              !.digest_failed = @ \/ (o.calls.finalize /\ o.calls.engine_err),
                              !.digests = @ + (IF o.calls.finalize THEN 1 ELSE 0),
                              !.sends = @ + (IF split_hash[1].sender # None /\ o.self.sender = None
                                             THEN 1 ELSE 0)]
    /\ UNCHANGED <<hash, split_digest, hinput, dlast, rx_first, returned>>
    /\ UNCHANGED <<config, input, held, built, dropped, output, last, calls, pre, taken>>
    /\ UNCHANGED random_vars

\* the computing handle goes away; a sender it still holds is dropped with it
SplitHashGone ==
    /\ split_hash # None
    /\ split_hash' = None
    /\ channel' = IF split_hash[1].sender # None THEN OneshotDrop(channel) ELSE channel
    /\ hist' = [hist EXCEPT !.abandoned = split_hash[1].sender # None]

\* drop(SplitHash)
SplitHashDrop ==
    /\ SplitHashGone
    /\ UNCHANGED returned
    /\ UNCHANGED <<hash, split_digest, hinput, yielded, forwarded, segment, hlast, inner_last,
                   hcalls, dlast, rx_first>>
    /\ UNCHANGED cipher_vars
    /\ UNCHANGED random_vars

\* SplitHash::into_inner: the inner producer is handed back, the rest dropped
SplitHashIntoInner ==
    /\ SplitHashGone
    /\ returned' = Some(split_hash[1].inner.inner)
    /\ UNCHANGED <<hash, split_digest, hinput, yielded, forwarded, segment, hlast, inner_last,
                   hcalls, dlast, rx_first>>
    /\ UNCHANGED cipher_vars
    /\ UNCHANGED random_vars

\* SplitDigest::poll
SplitDigestPull ==
    /\ split_digest # None
    /\ LET o == SplitDigestPoll(channel)
       IN  /\ channel' = o.channel
           /\ rx_first' = IF rx_first = RxNotReady THEN o.result ELSE rx_first
    /\ UNCHANGED <<hash, split_hash, split_digest, hinput, yielded, forwarded, segment,
                   hlast, inner_last, hcalls, dlast, hist, returned>>
    /\ UNCHANGED cipher_vars
    /\ UNCHANGED random_vars

\* drop(SplitDigest)
SplitDigestDrop ==
    /\ split_digest # None
    /\ split_digest' = None
    /\ channel' = OneshotDrop(channel)
    /\ UNCHANGED <<hash, split_hash, hinput, yielded, forwarded, segment, hlast, inner_last,
                   hcalls, dlast, rx_first, hist, returned>>
    /\ UNCHANGED cipher_vars
    /\ UNCHANGED random_vars

HashNext == HashPoll \/ HashDigest
HashSpec == HashInit /\ [][HashNext]_vars

SplitNext ==
    \/ SplitHashPull
    \/ SplitHashDrop
    \/ SplitHashIntoInner
    \/ SplitDigestPull
    \/ SplitDigestDrop
SplitSpec == SplitInit /\ [][SplitNext]_vars

\* the receiving handle's task is woken when the channel completes, so it is
\* polled again
FairSplitSpec == SplitSpec /\ WF_vars(SplitDigestPull)

(* ----------------- actions of the random generator --------------------- *)
\* Generator::with_executor and Generator::random_bytes: the request exists,
\* nothing has been submitted
RandomInit ==
    /\ CipherIdle
    /\ HashIdle
    /\ provider = MaxFaults
    /\ executor \in [accepting : BOOLEAN]
    /\ \E size \in 0..MaxSize :
          /\ request = Some(RandomBytes(size))
          /\ rhist = [NoRandomHist EXCEPT !.size = size]
    /\ task = None
    /\ spawned = OneshotChannel
    /\ rlast = NotPolled

\* the caller polls the future; a future that has resolved or unwound is not
\* polled again
RandomPoll ==
    /\ request # None
    /\ rlast.kind \in {"NotPolled", "NotReady"}
    /\ rhist.executes <= 1
    /\ LET o == RandomBytesPoll(request[1], executor, task, spawned)
       IN  /\ request' = Some(o.self)
           /\ task' = o.task
           /\ spawned' = o.channel
           /\ rlast' = o.result
           /\ rhist' = [rhist EXCEPT !.executes = @ + o.executes]
    /\ UNCHANGED <<executor, provider>>
    /\ UNCHANGED <<config, input, held, built, dropped, output, last, calls, pre, taken>>
    /\ UNCHANGED hash_vars

\* the caller drops the future, and with it the spawn handle if it holds one
RandomDrop ==
    /\ request # None
    /\ request' = None
    /\ spawned' = IF request[1].state = "Busy" THEN OneshotDrop(spawned) ELSE spawned
    /\ rhist' = [rhist EXCEPT !.dropped_at =
                    IF task = None THEN "unsubmitted" ELSE task[1].stage]
    /\ UNCHANGED <<executor, task, rlast, provider>>
    /\ UNCHANGED <<config, input, held, built, dropped, output, last, calls, pre, taken>>
    /\ UNCHANGED hash_vars

\* a worker thread picks the task up: Task::poll enters Execute::poll
WorkerStart ==
    /\ task # None
    /\ task[1].stage = "queued"
    /\ task' = Some(ExecuteStart(task[1], spawned))
    /\ UNCHANGED <<request, executor, spawned, rlast, rhist, provider>>
    /\ UNCHANGED <<config, input, held, built, dropped, output, last, calls, pre, taken>>
    /\ UNCHANGED hash_vars

\* the worker thread runs the task: the random source is called once and the
\* result sent to the spawn handle
WorkerRun ==
    /\ task # None
    /\ task[1].stage = "running"
    /\ \E fault \in Faults, slack \in 0..MaxSlack :
       \E filled \in Filled(task[1].inner.size + slack) :
          LET o == ExecuteRun(task[1], spawned, fault, filled)
          IN  /\ task' = Some(o.task)
              /\ spawned' = o.channel
              /\ provider' = IF fault THEN provider - 1 ELSE provider
              /\ rhist' = [rhist EXCEPT !.rand_calls = @ + 1, !.rand_failed = fault]
    /\ UNCHANGED <<request, executor, rlast>>
    /\ UNCHANGED <<config, input, held, built, dropped, output, last, calls, pre, taken>>
    /\ UNCHANGED hash_vars

RandomNext == RandomPoll \/ RandomDrop \/ WorkerStart \/ WorkerRun

RandomSpec == RandomInit /\ [][RandomNext]_vars

(* ------- any one of the three adapters over an arbitrary producer ------- *)
AdapterInit == Init \/ HashInit \/ SplitInit
AdapterNext == Next \/ HashNext \/ SplitNext
AdapterSpec == AdapterInit /\ [][AdapterNext]_vars

(* ============================== properties ============================= *)
IsPrefix(a, b) == Len(a) <= Len(b) /\ a = Take(b, Len(a))

Holding == held # None /\ IsAdapter(held[1])
Adapter == held[1]
NoFaultUsed == provider = MaxFaults

\* what the engine of a fresh adapter makes of the data given as one chunk
WholeOutput(cfg, mode, data) ==
    LET c0 == ConfigStream(cfg, Producer("any", <<>>), mode, TRUE).stream[1].crypter
        u  == CrypterUpdate(c0, data)
        f  == CrypterFinalize(u.crypter)
    IN  u.out \o (IF f.ok THEN f.out ELSE <<>>)

\* C1 (round trip): under RoundtripSpec, no pull of Decrypt(Encrypt(chunks))
\* returns an error, the bytes pulled so far are a prefix of the input, and
\* once Decrypt has returned end-of-data the concatenation of the chunks
\* pulled equals the concatenation of the input chunks.
C1_Roundtrip ==
    (Holding /\ Depth(Adapter) = 2) =>
        /\ last.kind # "Err"
        /\ IsPrefix(Concat(output), input)
        /\ last.kind = "None" => Concat(output) = input

\* a drained round trip of a full-length input, through a chaining block mode,
\* whose input had several chunks
C1_Witness ==
    /\ Holding /\ Depth(Adapter) = 2
    /\ last.kind = "None"
    /\ Len(input) = MaxData
    /\ Len(output) >= 3
    /\ config.algo \in CbcAlgos

\* C2 (chunking invariance): while the engine reports no provider fault, the
\* bytes an adapter has emitted are a prefix of what the one-chunk producer
\* of the same bytes makes it emit, and equal to it once it is finalized.
C2_ChunkingInvariance ==
    (Holding /\ NoFaultUsed) =>
        /\ IsPrefix(Concat(output), WholeOutput(config, Adapter.crypter.mode, input))
        /\ (Adapter.finalized /\ last.kind = "None") =>
              Concat(output) = WholeOutput(config, Adapter.crypter.mode, input)

\* a finished run of a block mode whose input came in several chunks, one empty
C2_Witness ==
    /\ Holding /\ NoFaultUsed
    /\ Adapter.finalized /\ last.kind = "None"
    /\ cipher_block_size(config.algo) = BlockLen
    /\ Len(input) = MaxData
    /\ Len(output) >= 4
    /\ \E i \in 1..Len(output) : output[i] # <<>>

\* C3 (idempotent termination): a pull that starts with the adapter finalized
\* returns end-of-data, polls neither the inner producer nor the engine, and
\* leaves the adapter finalized.
C3_FinalizedIsTerminal ==
    (Holding /\ pre.finalized) =>
        /\ last = ReadyNone
        /\ calls = NoCalls
        /\ Adapter.finalized

\* a pull made after the pull that finalized the adapter
C3_Witness == Holding /\ pre.finalized /\ last = ReadyNone /\ output # <<>>

\* C4 (engine errors surface in the same pull): a pull in which update or
\* finalize reports an error returns the engine error and adds no chunk to
\* the output.
C4_EngineErrorSurfaces ==
    [][calls'.engine_err => (last'.kind = "Err" /\ last'.err = "engine" /\ output' = output)]_vars

\* a pull whose update failed, and one whose finalize failed
C4_Witness == Holding /\ calls.engine_err /\ calls.update /\ last.kind = "Err"

\* C5 (permanently faulted): after a pull has failed with an engine error, no
\* later pull polls the inner producer, calls the engine or emits a chunk.
C5_PermanentlyFaulted ==
    (Holding /\ pre.faulted) =>
        /\ ~calls.inner /\ ~calls.update /\ ~calls.finalize
        /\ last.kind # "Some"

HashAlgo == hist.algorithm

\* the bytes the hasher has absorbed since it was last initialised or finished
Absorbed(hasher) == IF hasher.state = "Finalized" THEN <<>> ELSE hasher.acc

\* what Hash::digest returns once an unsplit Hash has forwarded all of data
UnsplitDigest(algorithm, data) ==
    LET src == Producer("any", <<>>)
        h0  == HashInnerNew(algorithm, src)
        h1  == HashInnerPoll(h0, [self |-> src, result |-> ReadySome(data)], FALSE).self
    IN  HashInnerDigest(h1, FALSE).result.value

\* C7 (digest pass-through): a pull of the Digest Adapter in which the
\* hasher's update does not fail returns the result of the inner poll it made,
\* chunk bytes included; as long as no update has failed the chunks forwarded
\* are exactly the chunks the inner producer yielded.
C7_PassThrough ==
    hash # None =>
        /\ (hlast.kind # "NotPolled" /\ ~hcalls.engine_err) => hlast = inner_last
        /\ ~hist.update_failed => forwarded = yielded

\* the adapter drained: several chunks forwarded, then end-of-data passed on
C7_Witness ==
    /\ hash # None
    /\ hlast = ReadyNone /\ inner_last = ReadyNone
    /\ Len(forwarded) >= 2
    /\ Concat(forwarded) = hinput
    /\ Len(hinput) = MaxHashData

\* C8 (segmented hashing): a successful Hash::digest returns, tagged with the
\* adapter's algorithm, the digest of the bytes forwarded since construction
\* or since the previous successful digest call, and the accumulator then
\* holds exactly the bytes forwarded since (none right after the call).
C8_SegmentedDigest ==
    hash # None =>
        /\ (dlast # None /\ dlast[1].result.ok) =>
              dlast[1].result.value =
                  Digest(MessageDigest(into_message_digest(HashAlgo), dlast[1].covered),
                         HashAlgo)
        /\ Absorbed(hash[1].hasher) = segment

\* a successful digest of a later, non-empty segment
C8_Witness ==
    /\ hash # None
    /\ dlast # None /\ dlast[1].result.ok
    /\ dlast[1].covered # <<>>
    /\ dlast[1].covered # Concat(forwarded)
    /\ segment = <<>>

\* C9 (split resolution on completion): once the computing handle has returned
\* end-of-data, with no engine fault, the receiving handle resolves to
\* Some(digest), the digest and algorithm being those the unsplit Hash over
\* the same input returns from digest() after being drained; until it is
\* polled that result waits in the completed channel.
C9_SplitResolves ==
    (hist.saw_end /\ ~hist.update_failed /\ ~hist.digest_failed) =>
        /\ rx_first # RxNotReady =>
              rx_first = RxReady(Some(UnsplitDigest(HashAlgo, hinput)))
        /\ (rx_first = RxNotReady /\ split_digest # None) =>
              channel = [data |-> Some(Ok(UnsplitDigest(HashAlgo, hinput))),
                         complete |-> TRUE]

\* the computing handle drained over several chunks and the receiver resolved
C9_Witness ==
    /\ hist.saw_end
    /\ rx_first = RxReady(Some(UnsplitDigest(HashAlgo, hinput)))
    /\ Len(forwarded) >= 2
    /\ Len(hinput) = MaxHashData

\* the computing handle was dropped before it saw end-of-data
DroppedEarly == hist.abandoned /\ returned = None

\* C10 (split abandonment): once the computing handle has been dropped before
\* it observed end-of-data, the receiving handle never resolves to an error or
\* to a digest, and, unless it is itself dropped, it resolves to Ok(None).
C10_Abandonment ==
    /\ [](DroppedEarly => rx_first \in {RxNotReady, RxReady(None)})
    /\ (DroppedEarly /\ split_digest # None) ~>
          (rx_first = RxReady(None) \/ split_digest = None)

\* dropped after some pulls, the receiver then resolved to Ok(None)
C10_Witness ==
    /\ DroppedEarly
    /\ forwarded # <<>>
    /\ rx_first = RxReady(None)
    /\ split_digest # None
\* C11 (split digest failure): the pull of the computing handle whose final
\* digest retrieval fails still returns end-of-data; the failure is put in the
\* channel, and the receiving handle resolves to that error, neither to
\* Ok(None) nor to a digest.
C11_DigestFailureDelivered ==
    /\ (hcalls.finalize /\ hcalls.engine_err) => (hlast = ReadyNone /\ hist.saw_end)
    /\ (hist.saw_end /\ hist.digest_failed) =>
          /\ rx_first \in {RxNotReady, RxErr("engine")}
          /\ (rx_first = RxNotReady /\ split_digest # None) =>
                channel = [data |-> Some(Fail("engine")), complete |-> TRUE]

\* the digest retrieval failed at end-of-data and the receiver got the error
C11_Witness ==
    /\ hist.saw_end /\ hist.digest_failed
    /\ hlast = ReadyNone
    /\ rx_first = RxErr("engine")
    /\ forwarded # <<>>
Busy == request # None /\ request[1].state = "Busy"

\* C12 (lazy, single submission): random_bytes submits nothing; a request never
\* polled, dropped or not, has submitted nothing; the first poll hands exactly
\* one task to the executor and, if it is accepted, leaves the request Busy; a
\* poll of a Busy request hands over nothing more; at most one task is ever
\* submitted for the request.
C12_LazySingleSubmission ==
    /\ [](/\ rhist.executes <= 1
          /\ (rlast = NotPolled => (rhist.executes = 0 /\ task = None /\ ~Busy))
          /\ (task # None => rhist.executes = 1)
          /\ (Busy => task # None))
    /\ [][(rlast = NotPolled /\ rlast' # NotPolled) =>
             /\ rhist'.executes = 1
             /\ executor.accepting =>
                   /\ Busy'
                   /\ task' = Some([inner |-> [size |-> rhist.size], stage |-> "queued"])]_vars
    /\ [][Busy => (rhist'.executes = rhist.executes /\ task' # None
                   /\ task'[1].inner = task[1].inner)]_vars

\* the request was polled more than once: it resolved on a later poll
C12_Witness ==
    /\ rhist.executes = 1
    /\ Busy
    /\ rlast.kind = "Some"
    /\ Len(rlast.bytes) = MaxSize
\* C13 (worker-pool rejection), as claimed: when the executor rejects the task
\* on the first poll, that poll returns an error as the future's result: it
\* neither panics nor leaves the future pending.
C13_RejectionIsError ==
    (~executor.accepting /\ rlast # NotPolled) => rlast.kind = "Err"
DroppedSubmitted == request = None /\ task # None /\ rhist.dropped_at # "unsubmitted"

\* C14 (drop after submission), as claimed: whenever the future is dropped
\* after its task was submitted, the task is not cancelled: once the worker is
\* through with it, the random source has been called.
C14_DropNeverCancels ==
    DroppedSubmitted =>
        /\ task[1].stage # "cancelled"
        /\ (task[1].stage = "done" => rhist.rand_calls = 1)

\* C14 (drop after submission), amended: a task whose future is dropped before
\* the worker picks it up is cancelled, and the random source is never called
\* for it; a task dropped after the worker picked it up runs to completion with
\* one random-source call, and its result is discarded; a task is cancelled in
\* no other case.
C14_DropCancelsBeforePickup ==
    /\ (task # None /\ task[1].stage = "cancelled") =>
          (DroppedSubmitted /\ rhist.dropped_at = "queued")
    /\ (DroppedSubmitted /\ rhist.dropped_at = "queued") =>
          (task[1].stage \in {"queued", "cancelled"} /\ rhist.rand_calls = 0
           /\ spawned.data = None)
    /\ (DroppedSubmitted /\ rhist.dropped_at = "running") =>
          /\ task[1].stage \in {"running", "done"}
          /\ task[1].stage = "done" => (rhist.rand_calls = 1 /\ spawned.data = None)
    /\ (DroppedSubmitted /\ rhist.dropped_at = "done") => rhist.rand_calls = 1

\* the future was dropped while its task was queued, and the worker then
\* picked the task up
C14_Witness ==
    /\ DroppedSubmitted
    /\ rhist.dropped_at = "queued"
    /\ task[1].stage = "cancelled"
    /\ rlast = NotReady
\* C15 (random-byte size): when the executor accepts the task and the random
\* source does not fail, the future of random_bytes(n) resolves to nothing but
\* a buffer of exactly n bytes, for n = 0 as for any other n, whatever the
\* capacity of the buffer the source filled.
C15_RandomByteSize ==
    /\ (rlast.kind = "Some" => Len(rlast.bytes) = rhist.size)
    /\ (spawned.data # None /\ spawned.data[1].ok) =>
          Len(spawned.data[1].value) = rhist.size
    /\ (executor.accepting /\ ~rhist.rand_failed /\ rlast.kind \notin {"NotPolled", "NotReady"}) =>
          rlast.kind = "Some"

\* random_bytes(0) has resolved to the empty buffer
C15_Witness ==
    /\ rhist.size = 0
    /\ rhist.rand_calls = 1
    /\ rlast = ReadySome(<<>>)
MaxOf(S) == CHOOSE x \in S : \A y \in S : y <= x

\* C16 (key/IV bounds): the largest key_len() over the algorithms is
\* MAX_KEY_LEN and the largest iv_len() over the algorithms with an IV is
\* MAX_IV_LEN; the key and IV buffers of the Config, whatever its algorithm,
\* are that long, so the slices key[..key_len] and iv[..iv_len] taken by
\* key_mut, iv_mut and Config::stream lie within them and have the full length
\* asked for.
C16_KeyIvBounds ==
    /\ MaxOf({key_len(a) : a \in Algorithm}) = MAX_KEY_LEN
    /\ MaxOf({iv_len(a)[1] : a \in {b \in Algorithm : iv_len(b) # None}}) = MAX_IV_LEN
    /\ MAX_KEY_LEN = 32 /\ MAX_IV_LEN = 16
    /\ Len(config.key) = MAX_KEY_LEN
    /\ Len(config.iv) = MAX_IV_LEN
    /\ key_len(config.algo) <= Len(config.key)
    /\ Len(Take(config.key, key_len(config.algo))) = key_len(config.algo)
    /\ iv_len(config.algo) # None =>
          /\ iv_len(config.algo)[1] <= Len(config.iv)
          /\ Len(Take(config.iv, iv_len(config.algo)[1])) = iv_len(config.algo)[1]

\* an adapter was built for an algorithm whose key and IV fill both buffers
C16_Witness ==
    /\ built # None /\ built[1].ok
    /\ key_len(config.algo) = MAX_KEY_LEN
    /\ iv_len(config.algo) = Some(MAX_IV_LEN)
    /\ \A i \in 1..MAX_KEY_LEN : config.key[i] # 0
    /\ \A i \in 1..MAX_IV_LEN : config.iv[i] # 0
\* C17 (transparent backpressure): a pull of an active adapter whose inner
\* producer reports not-ready returns not-ready, calls neither update nor
\* finalize, emits nothing, and leaves the finalized flag and the engine
\* state as they were: only the inner producer has moved.
C17_TransparentBackpressure ==
    [][(Holding /\ Holding' /\ Depth(held'[1]) = Depth(held[1])
        /\ calls'.polled = "NotReady") =>
          /\ ~Adapter.finalized
          /\ last' = NotReady
          /\ ~calls'.update /\ ~calls'.finalize /\ ~calls'.engine_err
          /\ output' = output
          /\ provider' = provider
          /\ held'[1] = [Adapter EXCEPT !.inner = held'[1].inner]]_vars

\* the inner producer was not ready between two chunks, the engine holding
\* buffered input
C17_Witness ==
    /\ Holding
    /\ calls.polled = "NotReady"
    /\ last = NotReady
    /\ output # <<>>
    /\ Adapter.crypter.buf # <<>>
ErrorFree == ~pre.faulted /\ ~calls.engine_err

\* the chunk the inner producer handed over in this step
Chunk ==
    Take(Adapter.inner.data, Len(Adapter.inner.data) - Len(held'[1].inner.data))

\* C18 (end-of-data handling): in a run without engine error in which the
\* adapter has taken k chunks from its inner producer, it has emitted k chunks,
\* each in the pull that took the input chunk and each what update wrote for
\* it; once the inner producer has signalled its end it has emitted exactly one
\* more chunk, what the one finalize call wrote, of at most block-size bytes;
\* it signals its own end only after that chunk, and then calls the engine no
\* more.
C18_EndOfData ==
    /\ []((Holding /\ Depth(Adapter) = 1 /\ ErrorFree) =>
             /\ Len(output) = taken + (IF Adapter.finalized THEN 1 ELSE 0)
             /\ Adapter.finalized =>
                   (Adapter.inner.data = <<>> /\ Len(output[taken + 1]) <= Adapter.block_size)
             /\ calls.finalize => (last.kind = "Some" /\ ~pre.finalized)
             /\ last.kind = "None" => (Adapter.finalized /\ pre.finalized /\ ~calls.inner)
             /\ calls.polled = "None" => calls.finalize)
    /\ [][(Holding /\ taken' = taken + 1 /\ ~calls'.engine_err) =>
             LET u == CrypterUpdate(Adapter.crypter, Chunk)
             IN  /\ output' = Append(output, u.out)
                 /\ held'[1].crypter = u.crypter
                 /\ ~held'[1].finalized]_vars
    /\ [][(Holding /\ Holding' /\ ~Adapter.finalized /\ held'[1].finalized
           /\ ~calls'.engine_err) =>
             /\ taken' = taken
             /\ calls'.polled = "None"
             /\ output' = Append(output, CrypterFinalize(Adapter.crypter).out)]_vars

\* two chunks went through, the final chunk was emitted and the end signalled
C18_Witness ==
    /\ Holding /\ ErrorFree
    /\ taken = 2
    /\ Len(output) = 3
    /\ output[3] # <<>>
    /\ last = ReadyNone
\* C19 (delivery before end): the pull of the computing handle on which it
\* first returns end-of-data has retrieved the digest and, the receiving
\* handle being alive, left the result in the channel; so whenever the consumer
\* has seen end-of-data from the computing handle and the receiving handle is
\* alive, the channel is complete and the receiving handle's poll is ready.
C19_DeliveryBeforeEnd ==
    /\ []((hist.saw_end /\ split_digest # None) =>
             /\ channel.complete
             /\ rx_first = RxNotReady =>
                   (channel.data # None /\ SplitDigestPoll(channel).result # RxNotReady))
    /\ [][(~hist.saw_end /\ hist'.saw_end) =>
             /\ inner_last'.kind = "None"
             /\ hcalls'.finalize
             /\ hlast' = ReadyNone
             /\ channel'.complete
             /\ split_digest # None => channel'.data # None]_vars

\* end-of-data was seen after two chunks, the receiving handle not yet polled
C19_Witness ==
    /\ hist.saw_end
    /\ Len(forwarded) = 2
    /\ split_digest # None
    /\ rx_first = RxNotReady
    /\ channel.data # None /\ channel.data[1].ok
\* what the receiving handle has got or would get from a poll
Resolution == IF rx_first # RxNotReady THEN rx_first ELSE SplitDigestPoll(channel).result

\* C20 (one-shot result slot): the computing handle retrieves the digest
\* automatically at most once and sends at most once, however often it is
\* pulled after its end; the channel completes at most once and stays
\* complete; a value is written to it only in the step that completes it, and
\* afterwards only taken out by the receiving handle; what the receiving handle
\* resolves to never changes once the channel is complete.
C20_OneShotSlot ==
    /\ [](hist.digests <= 1 /\ hist.sends <= 1 /\ hist.sends = hist.digests)
    /\ [](channel.data # None => channel.complete)
    /\ [][channel.complete => channel'.complete]_vars
    /\ [][(channel'.data # channel.data /\ channel'.data # None) =>
             (~channel.complete /\ channel.data = None /\ hcalls'.finalize
              /\ hist'.sends = hist.sends + 1)]_vars
    /\ [][(channel'.data # channel.data /\ channel'.data = None) =>
             (split_digest # None /\ rx_first' = Resolution)]_vars
    /\ [][(channel.complete /\ split_digest # None /\ split_digest' # None) =>
             Resolution' = Resolution]_vars

\* the computing handle was pulled again after its end, the inner producer
\* signalling end-of-data again, and then dropped; the receiver has the digest
C20_Witness ==
    /\ hist.saw_end
    /\ hist.digests = 1
    /\ hcalls.polled = "None" /\ ~hcalls.finalize
    /\ hlast = ReadyNone
    /\ split_hash = None
    /\ rx_first.kind = "Ready" /\ rx_first.value # None
\* C21 (inner errors forwarded): a pull whose inner poll returns an error
\* returns that error, calls neither the cipher engine nor the hasher, and
\* leaves everything but the inner producer as it was: the cipher adapter
\* keeps its engine state and is not finalized, the digest adapter and the
\* computing handle keep their hasher, and the computing handle keeps its
\* sender and writes nothing to the channel.
C21_InnerErrorForwarded ==
    /\ [][(Holding /\ Holding' /\ Depth(held'[1]) = Depth(Adapter) /\ held' # held
           /\ calls'.polled = "Err") =>
             /\ last' = Err("inner")
             /\ ~calls'.update /\ ~calls'.finalize /\ ~calls'.engine_err
             /\ output' = output /\ taken' = taken /\ provider' = provider
             /\ ~held'[1].finalized
             /\ held'[1] = [Adapter EXCEPT !.inner = held'[1].inner]]_vars
    /\ [][(hash # None /\ hash' # None /\ hash'[1].inner # hash[1].inner
           /\ inner_last'.kind = "Err") =>
             /\ hlast' = inner_last'
             /\ ~hcalls'.update /\ ~hcalls'.finalize /\ ~hcalls'.engine_err
             /\ forwarded' = forwarded /\ segment' = segment /\ provider' = provider
             /\ hash'[1] = [hash[1] EXCEPT !.inner = hash'[1].inner]]_vars
    /\ [][(split_hash # None /\ split_hash' # None
           /\ split_hash'[1].inner.inner # split_hash[1].inner.inner
           /\ inner_last'.kind = "Err") =>
             /\ hlast' = inner_last'
             /\ ~hcalls'.update /\ ~hcalls'.finalize /\ ~hcalls'.engine_err
             /\ forwarded' = forwarded /\ segment' = segment /\ provider' = provider
             /\ split_hash'[1].sender = split_hash[1].sender
             /\ split_hash'[1].inner.hasher = split_hash[1].inner.hasher
             /\ channel' = channel
             /\ hist'.sends = hist.sends /\ hist'.digests = hist.digests]_vars

\* the computing handle has forwarded a chunk and then an error of its inner
\* producer, still holding the sender
C21_Witness ==
    /\ split_hash # None
    /\ split_hash[1].sender # None
    /\ forwarded # <<>>
    /\ inner_last = Err("inner")
    /\ hlast = Err("inner")
    /\ channel = OneshotChannel
Computing == split_hash # None /\ ~hist.saw_end

\* C22 (receiver pending): while the receiving handle is alive it is pending
\* exactly as long as the computing handle is alive and has not seen
\* end-of-data; a pull of the computing handle that ends in an error, of the
\* inner producer or of the hasher's update, writes nothing to the channel and
\* keeps the sender; the receiving handle resolves only in a step in which the
\* computing handle sees end-of-data, is dropped or is consumed by into_inner,
\* and in the last two cases it resolves to Ok(None).
C22_PendingWhileComputing ==
    /\ [](split_digest # None =>
             /\ (Resolution = RxNotReady) <=> Computing
             /\ Computing => (split_hash[1].sender # None /\ channel = OneshotChannel)
             /\ (split_hash = None /\ ~hist.saw_end) => Resolution = RxReady(None))
    /\ [][(split_hash # None /\ split_hash' # None /\ split_hash' # split_hash
           /\ hlast'.kind = "Err") =>
             (channel' = channel /\ split_hash'[1].sender = split_hash[1].sender
              /\ (split_digest # None => Resolution' = Resolution))]_vars
    /\ [][(split_digest # None /\ split_digest' # None
           /\ Resolution = RxNotReady /\ Resolution' # RxNotReady) =>
             \/ (~hist.saw_end /\ hist'.saw_end /\ inner_last'.kind = "None")
             \/ (split_hash # None /\ split_hash' = None /\ Resolution' = RxReady(None))]_vars

\* the hasher's update failed on a pull, the computing handle went on to
\* forward a chunk, and the receiving handle is still pending
C22_Witness ==
    /\ split_digest # None
    /\ Computing
    /\ hist.update_failed
    /\ forwarded # <<>>
    /\ hlast.kind = "Some"
    /\ Resolution = RxNotReady
====
